---- MODULE Spec2Model ----
(***************************************************************************)
(* Stock dashboard core: the SQLite store (database_manager.py), the cache *)
(* coordinator (data_service.py) and the watchlist manager                 *)
(* (watchlist_service.py).                                                 *)
(*                                                                         *)
(* Time is counted in minutes.  `now` is the UTC clock; the local clock    *)
(* read by datetime.now() is now + tzOffset.  SQLite's CURRENT_TIMESTAMP   *)
(* is UTC.  Timestamps of one format compare as their instants do, so they *)
(* are integers here.                                                      *)
(***************************************************************************)
EXTENDS Integers, Sequences, FiniteSets, TLC

VARIABLES
    now,                  \* UTC clock, minutes
    tzOffset,             \* local time minus UTC, minutes (set by the host)
    stock_data,           \* rows of table stock_data
    technical_indicators, \* rows of table technical_indicators
    watchlist_tickers,    \* rows of table watchlist_tickers
    gateway_calls,        \* number of yf.download calls made so far
    last                  \* the most recent step: a call with its arguments and
                          \* its result, or a tick of the clock

vars == <<now, tzOffset, stock_data, technical_indicators, watchlist_tickers,
          gateway_calls, last>>

-----------------------------------------------------------------------------
(* Bounds of the model *)

MaxTime == 5
MaxGatewayCalls == 2
MaxBars == 22
MaxPeriodCount == 12

(* Program constants *)

CACHE_DURATION_MINUTES == 5
Sma20Window == 20
MinutesPerDay == 1440
DaysPerWeek == 7
DaysPerMonth == 30
DaysPerYear == 365

(* Python's None, an absent optional value; Some(x) is a present one. *)
None == <<>>
Some(x) == <<x>>

(* What a method of the store returns: a bool, a DataFrame, a list, or nothing *)
Bool(b) == [type |-> "bool", value |-> b]
DataFrame(rows) == [type |-> "DataFrame", value |-> rows]
List(items) == [type |-> "list", value |-> items]
NoValue == [type |-> "NoneType"]

(* float('nan') in a Volume cell: int(nan) raises ValueError. *)
NaN == -1

(* Offsets of the host's time zone: west of UTC, UTC, east of UTC. *)
TzOffsets == {-60, 0, 60}

LocalNow == now + tzOffset

-----------------------------------------------------------------------------
(* config/settings.py *)

INTERVAL_MAPPING(period) ==
    CASE period = "1d"  -> "1m"
      [] period = "5d"  -> "5m"
      [] period = "1mo" -> "1h"
      [] period = "3mo" -> "1d"
      [] period = "6mo" -> "1d"
      [] period = "1y"  -> "1wk"
      [] period = "5y"  -> "1mo"
      [] period = "max" -> "1mo"
      [] OTHER          -> "1d"

\* period strings are parsed by _fetch_from_yahoo: there they are sequences of
\* characters
DEFAULT_TIME_PERIODS ==
    { <<"1", "d">>, <<"5", "d">>, <<"1", "m", "o">>, <<"3", "m", "o">>,
      <<"6", "m", "o">>, <<"1", "y">>, <<"5", "y">>, <<"m", "a", "x">> }

-----------------------------------------------------------------------------
(* Inputs *)

\* periods handed to _fetch_from_yahoo: the dashboard's, the week the code
\* names, a two-digit count, yfinance's year-to-date and an hour count
GatewayPeriods ==
    DEFAULT_TIME_PERIODS
        \cup { <<"1", "w", "k">>, <<"1", "0", "d">>, <<"1", "2", "m", "o">>,
               <<"y", "t", "d">>, <<"2", "h">> }

\* (ticker, period, interval argument) of the fetch_stock_data calls
Requests ==
    { <<"AAPL", "1d", None>>,
      <<"MSFT", "5d", Some("1m")>> }

Bar(d, o, h, l, c, v) ==
    [Datetime |-> d, Open |-> o, High |-> h, Low |-> l, Close |-> c, Volume |-> v]

\* what yf.download can do: raise, return an empty frame, return a frame
GatewayOutcomes ==
    { [kind |-> "error", data |-> <<>>],
      [kind |-> "empty", data |-> <<>>],
      [kind |-> "ok", data |-> <<Bar(1, 10, 12, 9, 11, 100)>>],
      [kind |-> "ok", data |-> <<Bar(1, 11, 13, 10, 12, 200), Bar(2, 12, 14, 11, 13, 300)>>],
      [kind |-> "ok", data |-> <<Bar(2, 12, 14, 11, 13, NaN)>>] }

PurgeDays == {0, 30}

-----------------------------------------------------------------------------
(* database/database_manager.py: table stock_data *)

SameNaturalKey(r, s) ==
    /\ r.ticker = s.ticker
    /\ r.datetime = s.datetime
    /\ r.period = s.period
    /\ r.interval = s.interval

\* a plain INSERT into a table without the UNIQUE constraint: the old row stays
InsertKeepingOld(rows, sd, utc) ==
    rows \cup { [ticker |-> sd.ticker, datetime |-> sd.datetime,
                 open |-> sd.open, high |-> sd.high, low |-> sd.low,
                 close |-> sd.close, volume |-> sd.volume,
                 period |-> sd.period, interval |-> sd.interval,
                 created_at |-> utc] }

\* One INSERT OR REPLACE: the rows in conflict on UNIQUE(ticker, datetime,
\* period, interval) are deleted, the new row gets created_at = CURRENT_TIMESTAMP.
InsertOrReplace(rows, sd, utc) ==
    { r \in rows : ~SameNaturalKey(r, sd) }
        \cup { [ticker |-> sd.ticker, datetime |-> sd.datetime,
                open |-> sd.open, high |-> sd.high, low |-> sd.low,
                close |-> sd.close, volume |-> sd.volume,
                period |-> sd.period, interval |-> sd.interval,
                created_at |-> utc] }

\* a row without its write time
Values(r) ==
    [ticker |-> r.ticker, datetime |-> r.datetime, open |-> r.open, high |-> r.high,
     low |-> r.low, close |-> r.close, volume |-> r.volume,
     period |-> r.period, interval |-> r.interval]

RECURSIVE save_stock_data(_, _, _)
save_stock_data(rows, stock_data_list, utc) ==
    IF stock_data_list = <<>> THEN rows
    ELSE save_stock_data(InsertOrReplace(rows, Head(stock_data_list), utc),
                         Tail(stock_data_list), utc)

KeyRows(rows, ticker, period, interval) ==
    { r \in rows : r.ticker = ticker /\ r.period = period /\ r.interval = interval }

\* SELECT COUNT(*) ... AND created_at > ?  with ? = datetime.now() - TTL
is_data_cached(rows, ticker, period, interval, localNow) ==
    LET cutoff_time == localNow - CACHE_DURATION_MINUTES
        count == Cardinality({ r \in KeyRows(rows, ticker, period, interval) :
                                 r.created_at > cutoff_time })
    IN  count > 0

\* the rows of S in descending order of datetime
RECURSIVE OrderByDatetimeDesc(_)
OrderByDatetimeDesc(S) ==
    IF S = {} THEN <<>>
    ELSE LET m == CHOOSE r \in S : \A s \in S : s.datetime <= r.datetime
         IN  <<m>> \o OrderByDatetimeDesc(S \ {m})

\* df.sort_values('datetime'): insertion into ascending order
RECURSIVE SortByDatetime(_)
SortByDatetime(seq) ==
    IF seq = <<>> THEN <<>>
    ELSE LET rest == SortByDatetime(Tail(seq))
             h == Head(seq)
             before == SelectSeq(rest, LAMBDA x : x.datetime < h.datetime)
             after == SelectSeq(rest, LAMBDA x : ~(x.datetime < h.datetime))
         IN  before \o <<h>> \o after

Take(seq, n) == IF Len(seq) <= n THEN seq ELSE SubSeq(seq, 1, n)

\* SELECT datetime, open, high, low, close, volume ... ORDER BY datetime DESC
\* [LIMIT n], then sorted ascending.  limit = None or 0 means no LIMIT.
get_stock_data(rows, ticker, period, interval, limit) ==
    LET ordered == OrderByDatetimeDesc(KeyRows(rows, ticker, period, interval))
        limited == IF limit # None /\ limit[1] # 0 THEN Take(ordered, limit[1]) ELSE ordered
        df == [i \in 1..Len(limited) |->
                 [datetime |-> limited[i].datetime, open |-> limited[i].open,
                  high |-> limited[i].high, low |-> limited[i].low,
                  close |-> limited[i].close, volume |-> limited[i].volume]]
    IN  SortByDatetime(df)

\* DELETE FROM <table> WHERE created_at < ?  with ? = datetime.now() - days
DeleteOlderThan(rows, cutoff_date) == { r \in rows : ~(r.created_at < cutoff_date) }

-----------------------------------------------------------------------------
(* services/data_service.py *)

\* str.endswith and the slice period[:-n]
EndsWith(s, suffix) ==
    /\ Len(s) >= Len(suffix)
    /\ SubSeq(s, Len(s) - Len(suffix) + 1, Len(s)) = suffix

DropLast(s, n) == SubSeq(s, 1, Len(s) - n)

\* int(): the value of a run of decimal digits; on the other strings met here
\* it raises ValueError
DigitChars == <<"0", "1", "2", "3", "4", "5", "6", "7", "8", "9">>

IsInt(s) == s # <<>> /\ \A i \in 1..Len(s) : \E d \in 1..Len(DigitChars) : DigitChars[d] = s[i]

RECURSIVE int(_)
int(s) ==
    LET digit == (CHOOSE d \in 1..Len(DigitChars) : DigitChars[d] = s[Len(s)]) - 1
    IN  IF Len(s) = 1 THEN digit ELSE 10 * int(DropLast(s, 1)) + digit

\* a gateway that counts calendar months of 31 days
PeriodDaysLongMonths(period) ==
    IF period = <<"1", "w", "k">> THEN Some(DaysPerWeek)
    ELSE IF period = <<"m", "a", "x">> THEN Some(DaysPerYear * 10)
    ELSE IF EndsWith(period, <<"d">>)
    THEN IF IsInt(DropLast(period, 1)) THEN Some(int(DropLast(period, 1))) ELSE None
    ELSE IF EndsWith(period, <<"m", "o">>)
    THEN IF IsInt(DropLast(period, 2))
         THEN Some(int(DropLast(period, 2)) * (DaysPerMonth + 1)) ELSE None
    ELSE IF EndsWith(period, <<"y">>)
    THEN IF IsInt(DropLast(period, 1))
         THEN Some(int(DropLast(period, 1)) * DaysPerYear) ELSE None
    ELSE Some(1)

\* the days _fetch_from_yahoo subtracts from the end date (lines 70-86); None
\* when int() raises
PeriodDays(period) ==
    IF period = <<"1", "w", "k">> THEN Some(DaysPerWeek)
    ELSE IF period = <<"m", "a", "x">> THEN Some(DaysPerYear * 10)
    ELSE IF EndsWith(period, <<"d">>)
    THEN IF IsInt(DropLast(period, 1)) THEN Some(int(DropLast(period, 1))) ELSE None
    ELSE IF EndsWith(period, <<"m", "o">>)
    THEN IF IsInt(DropLast(period, 2))
         THEN Some(int(DropLast(period, 2)) * DaysPerMonth) ELSE None
    ELSE IF EndsWith(period, <<"y">>)
    THEN IF IsInt(DropLast(period, 1))
         THEN Some(int(DropLast(period, 1)) * DaysPerYear) ELSE None
    ELSE Some(1)

\* _fetch_from_yahoo: None on an exception or an empty frame, else the frame
\* with Datetime, Open, High, Low, Close, Volume columns
_fetch_from_yahoo(gw) == IF gw.kind = "ok" /\ gw.data # <<>> THEN Some(gw.data) ELSE None

\* the StockData objects built by _save_to_cache
StockDataList(data, ticker, period, interval) ==
    [i \in 1..Len(data) |->
        [ticker |-> ticker, datetime |-> data[i].Datetime,
         open |-> data[i].Open, high |-> data[i].High, low |-> data[i].Low,
         close |-> data[i].Close, volume |-> data[i].Volume,
         period |-> period, interval |-> interval]]

\* int(row['Volume']) raises on NaN
BatchBuilds(data) == \A i \in 1..Len(data) : data[i].Volume # NaN

\* a save that commits the rows written before the fault
SaveCommittingBeforeFault(rows, data, ticker, period, interval, fault, utc) ==
    IF BatchBuilds(data) /\ ~fault
    THEN save_stock_data(rows, StockDataList(data, ticker, period, interval), utc)
    ELSE IF BatchBuilds(<<Head(data)>>)
    THEN save_stock_data(rows, StockDataList(<<Head(data)>>, ticker, period, interval), utc)
    ELSE rows

\* _save_to_cache: the table after the call.  A fault while the batch is built
\* or written is swallowed and, the transaction being rolled back, writes nothing.
_save_to_cache(rows, data, ticker, period, interval, fault, utc) ==
    IF BatchBuilds(data) /\ ~fault
    THEN save_stock_data(rows, StockDataList(data, ticker, period, interval), utc)
    ELSE rows

\* a coordinator that consults the store whatever use_cache says
CacheHitIgnoringUseCache(rows, ticker, period, interval, use_cache, faults, localNow) ==
    /\ "is_data_cached" \notin faults
    /\ is_data_cached(rows, ticker, period, interval, localNow)
    /\ "get_stock_data" \notin faults
    /\ get_stock_data(rows, ticker, period, interval, None) # <<>>

\* whether fetch_stock_data returns the cached frame (lines 45-49); a store
\* operation that hits a fault answers False, or an empty frame
CacheHit(rows, ticker, period, interval, use_cache, faults, localNow) ==
    /\ use_cache
    /\ "is_data_cached" \notin faults
    /\ is_data_cached(rows, ticker, period, interval, localNow)
    /\ "get_stock_data" \notin faults
    /\ get_stock_data(rows, ticker, period, interval, None) # <<>>

\* a coordinator that falls back to the stored bars when the gateway has none
FetchResultWithStaleFallback(rows, ticker, period, interval, use_cache, gw, faults, localNow) ==
    IF CacheHit(rows, ticker, period, interval, use_cache, faults, localNow)
    THEN Some(get_stock_data(rows, ticker, period, interval, None))
    ELSE IF _fetch_from_yahoo(gw) = None
            /\ get_stock_data(rows, ticker, period, interval, None) # <<>>
    THEN Some(get_stock_data(rows, ticker, period, interval, None))
    ELSE _fetch_from_yahoo(gw)

\* what fetch_stock_data returns: the cached frame, the fetched frame or None
FetchResult(rows, ticker, period, interval, use_cache, gw, faults, localNow) ==
    IF CacheHit(rows, ticker, period, interval, use_cache, faults, localNow)
    THEN Some(get_stock_data(rows, ticker, period, interval, None))
    ELSE _fetch_from_yahoo(gw)

\* table stock_data after fetch_stock_data
FetchStore(rows, ticker, period, interval, use_cache, gw, faults, localNow, utc) ==
    IF ~CacheHit(rows, ticker, period, interval, use_cache, faults, localNow)
       /\ _fetch_from_yahoo(gw) # None
    THEN _save_to_cache(rows, _fetch_from_yahoo(gw)[1], ticker, period, interval,
                        "save_stock_data" \in faults, utc)
    ELSE rows

\* the store methods and the download a fetch_stock_data call invokes
FetchCalls(rows, ticker, period, interval, use_cache, gw, faults, localNow) ==
    LET hit == CacheHit(rows, ticker, period, interval, use_cache, faults, localNow)
    IN  (IF use_cache THEN {"is_data_cached"} ELSE {})
        \cup (IF /\ use_cache
                 /\ "is_data_cached" \notin faults
                 /\ is_data_cached(rows, ticker, period, interval, localNow)
              THEN {"get_stock_data"} ELSE {})
        \cup (IF hit THEN {} ELSE {"download"})
        \cup (IF ~hit /\ _fetch_from_yahoo(gw) # None /\ BatchBuilds(gw.data)
              THEN {"save_stock_data"} ELSE {})

Interval(period, intervalArg) ==
    IF intervalArg = None THEN INTERVAL_MAPPING(period) ELSE intervalArg[1]

\* the store operations a fetch_stock_data call makes, in the order it makes
\* them; each may hit a fault, and yf.download is drawn only when it is called
FetchInputs(ticker, period, interval, use_cache) ==
    LET NoGateway == [kind |-> "none", data |-> <<>>]
        Writes(gw) == _fetch_from_yahoo(gw) # None /\ BatchBuilds(gw.data)
        Miss(read) ==
            { [gw |-> gw, faults |-> read \cup w] :
                gw \in GatewayOutcomes, w \in {{}, {"save_stock_data"}} }
        Calls(read) ==
            { c \in Miss(read) : "save_stock_data" \in c.faults => Writes(c.gw) }
    IN  IF ~use_cache THEN Calls({})
        ELSE Calls({"is_data_cached"})
             \cup (IF ~is_data_cached(stock_data, ticker, period, interval, LocalNow)
                   THEN Calls({})
                   ELSE Calls({"get_stock_data"})
                        \cup (IF get_stock_data(stock_data, ticker, period, interval, None) = <<>>
                              THEN Calls({})
                              ELSE {[gw |-> NoGateway, faults |-> {}]}))

fetch_stock_data(ticker, period, intervalArg, use_cache, gw, faults) ==
    LET interval == Interval(period, intervalArg)
        hit == CacheHit(stock_data, ticker, period, interval, use_cache, faults, LocalNow)
        written == FetchStore(stock_data, ticker, period, interval, use_cache, gw,
                              faults, LocalNow, now)
        batch == StockDataList(gw.data, ticker, period, interval)
    IN  /\ hit \/ gateway_calls < MaxGatewayCalls
        /\ gateway_calls' = IF hit THEN gateway_calls ELSE gateway_calls + 1
        /\ stock_data' = written
        /\ last' = [op |-> "fetch", ticker |-> ticker, period |-> period,
                    interval |-> interval, use_cache |-> use_cache,
                    gateway |-> gw.kind, faults |-> faults, hit |-> hit,
                    cached |-> is_data_cached(stock_data, ticker, period, interval,
                                              LocalNow),
                    calls |-> FetchCalls(stock_data, ticker, period, interval,
                                         use_cache, gw, faults, LocalNow),
                    saved |-> /\ ~hit
                              /\ _fetch_from_yahoo(gw) # None
                              /\ BatchBuilds(gw.data)
                              /\ "save_stock_data" \notin faults,
                    fetched |-> gw.data,
                    reapplied |-> /\ ~hit
                                  /\ \A i \in 1..Len(batch) :
                                        batch[i] \in { Values(r) : r \in stock_data },
                    result |-> FetchResult(stock_data, ticker, period, interval,
                                           use_cache, gw, faults, LocalNow)]
        /\ UNCHANGED <<now, tzOffset, technical_indicators, watchlist_tickers>>

FetchStockData ==
    \E req \in Requests, use_cache \in BOOLEAN :
        \E c \in FetchInputs(req[1], req[2], Interval(req[2], req[3]), use_cache) :
            fetch_stock_data(req[1], req[2], req[3], use_cache, c.gw, c.faults)

\* _fetch_from_yahoo with the dates it hands to yf.download; an exception
\* raised before the download leaves it uncalled
fetch_from_yahoo(period, gw) ==
    LET days == PeriodDays(period)
        end_date == LocalNow
    IN  /\ days = None \/ gateway_calls < MaxGatewayCalls
        /\ gateway_calls' = IF days = None THEN gateway_calls ELSE gateway_calls + 1
        /\ last' = [op |-> "download", period |-> period, end_date |-> end_date,
                    start_date |-> IF days = None THEN None
                                   ELSE Some(end_date - days[1] * MinutesPerDay),
                    result |-> IF days = None THEN None ELSE _fetch_from_yahoo(gw)]
        /\ UNCHANGED <<now, tzOffset, stock_data, technical_indicators, watchlist_tickers>>

FetchFromYahoo ==
    \E period \in GatewayPeriods, gw \in GatewayOutcomes : fetch_from_yahoo(period, gw)

\* database_manager.clear_old_data
clear_old_data(days_to_keep, fault) ==
    LET cutoff_date == LocalNow - days_to_keep * MinutesPerDay
    IN  /\ stock_data' = IF fault THEN stock_data ELSE DeleteOlderThan(stock_data, cutoff_date)
        /\ technical_indicators' =
             IF fault THEN technical_indicators
             ELSE DeleteOlderThan(technical_indicators, cutoff_date)
        /\ last' = [op |-> "purge", days_to_keep |-> days_to_keep, fault |-> fault,
                    returned |-> NoValue]
        /\ UNCHANGED <<now, tzOffset, watchlist_tickers, gateway_calls>>

ClearOldData == \E d \in PurgeDays, fault \in BOOLEAN : clear_old_data(d, fault)

-----------------------------------------------------------------------------
(* database/database_manager.py: table technical_indicators *)

\* One INSERT OR REPLACE INTO technical_indicators: the row in conflict on
\* UNIQUE(ticker, datetime) is deleted; the statement names eight indicator
\* columns, so sma_50, sma_100 and sma_200 of the new row are NULL.
InsertOrReplaceIndicators(rows, ind, utc) ==
    { r \in rows : ~(r.ticker = ind.ticker /\ r.datetime = ind.datetime) }
        \cup { [ticker |-> ind.ticker, datetime |-> ind.datetime,
                sma_20 |-> ind.sma_20, sma_50 |-> None, sma_100 |-> None,
                sma_200 |-> None, ema_20 |-> ind.ema_20, rsi_14 |-> ind.rsi_14,
                macd |-> ind.macd, macd_signal |-> ind.macd_signal,
                bb_upper |-> ind.bb_upper, bb_middle |-> ind.bb_middle,
                bb_lower |-> ind.bb_lower, created_at |-> utc] }

RECURSIVE save_technical_indicators(_, _, _)
save_technical_indicators(rows, indicators_list, utc) ==
    IF indicators_list = <<>> THEN rows
    ELSE save_technical_indicators(InsertOrReplaceIndicators(rows, Head(indicators_list), utc),
                                   Tail(indicators_list), utc)

\* SELECT datetime, sma_20, ema_20, rsi_14, macd, macd_signal, bb_upper,
\* bb_middle, bb_lower ... WHERE ticker = ? ORDER BY datetime DESC [LIMIT n],
\* then sorted ascending
get_technical_indicators(rows, ticker, limit) ==
    LET ordered == OrderByDatetimeDesc({ r \in rows : r.ticker = ticker })
        limited == IF limit # None /\ limit[1] # 0 THEN Take(ordered, limit[1]) ELSE ordered
        df == [i \in 1..Len(limited) |->
                 [datetime |-> limited[i].datetime, sma_20 |-> limited[i].sma_20,
                  ema_20 |-> limited[i].ema_20, rsi_14 |-> limited[i].rsi_14,
                  macd |-> limited[i].macd, macd_signal |-> limited[i].macd_signal,
                  bb_upper |-> limited[i].bb_upper, bb_middle |-> limited[i].bb_middle,
                  bb_lower |-> limited[i].bb_lower]]
    IN  SortByDatetime(df)

-----------------------------------------------------------------------------
(* services/technical_indicators_service.py *)

\* the indicators calculate_indicators knows, with the columns each one adds
IndicatorColumns(indicator) ==
    CASE indicator = "SMA_20"  -> {"SMA_20"}
      [] indicator = "EMA_20"  -> {"EMA_20"}
      [] indicator = "RSI_14"  -> {"RSI_14"}
      [] indicator = "MACD"    -> {"MACD", "MACD_Signal"}
      [] indicator = "BB"      -> {"BB_Upper", "BB_Middle", "BB_Lower"}
      [] indicator = "SMA_50"  -> {"SMA_50"}
      [] indicator = "SMA_100" -> {"SMA_100"}
      [] indicator = "SMA_200" -> {"SMA_200"}
      [] indicator = "RSI_21"  -> {"RSI_21"}
      [] OTHER                 -> {}

DefaultIndicators == <<"SMA_20", "EMA_20", "RSI_14", "MACD", "BB">>

\* the indicators argument of calculate_indicators
IndicatorLists == { None, Some(<<"SMA_50", "SMA_20">>) }

\* What the ta library does in one calculate_indicators call.  A column has no
\* value on the first row (not enough history); on the later rows it is 0.0
\* when the series is "flat" and the row's close otherwise.  The call made for
\* the indicator `failing` raises.
TaOutcomes ==
    { [kind |-> k, failing |-> f] : k \in {"flat", "trend"}, f \in {"none", "SMA_20"} }

Cell(data, i, ta) ==
    IF i = 1 THEN NaN ELSE IF ta.kind = "flat" THEN 0 ELSE data[i].Close

\* data[column] = <the computed series>, for each column of the set
WithColumns(data, columns, ta) ==
    [i \in 1..Len(data) |->
        [f \in DOMAIN data[i] \cup columns |->
            IF f \in columns THEN Cell(data, i, ta) ELSE data[i][f]]]

\* whether the branch of one indicator raises: data['Close'] on a frame
\* without that column (KeyError), or the library call itself
Raises(data, indicator, ta) ==
    /\ IndicatorColumns(indicator) # {}
    /\ \/ "Close" \notin DOMAIN data[1]
       \/ ta.failing = indicator

\* the loop over the requested indicators: the frame when the loop ends, and
\* whether an exception ended it
RECURSIVE CalculateLoop(_, _, _)
CalculateLoop(data, indicators, ta) ==
    IF indicators = <<>> THEN [data |-> data, raised |-> FALSE]
    ELSE IF Raises(data, Head(indicators), ta) THEN [data |-> data, raised |-> TRUE]
    ELSE CalculateLoop(WithColumns(data, IndicatorColumns(Head(indicators)), ta),
                       Tail(indicators), ta)

\* float(row.get(column, 0)) if pd.notna(row.get(column)) else None
NotNaOrNone(row, column) ==
    IF column \in DOMAIN row /\ row[column] # NaN THEN Some(row[column]) ELSE None

\* the TechnicalIndicators objects built by _save_indicators_to_cache
IndicatorsList(data, ticker) ==
    [i \in 1..Len(data) |->
        [ticker |-> ticker, datetime |-> data[i].Datetime,
         sma_20 |-> NotNaOrNone(data[i], "SMA_20"),
         sma_50 |-> NotNaOrNone(data[i], "SMA_50"),
         sma_100 |-> NotNaOrNone(data[i], "SMA_100"),
         sma_200 |-> NotNaOrNone(data[i], "SMA_200"),
         ema_20 |-> NotNaOrNone(data[i], "EMA_20"),
         rsi_14 |-> NotNaOrNone(data[i], "RSI_14"),
         macd |-> NotNaOrNone(data[i], "MACD"),
         macd_signal |-> NotNaOrNone(data[i], "MACD_Signal"),
         bb_upper |-> NotNaOrNone(data[i], "BB_Upper"),
         bb_middle |-> NotNaOrNone(data[i], "BB_Middle"),
         bb_lower |-> NotNaOrNone(data[i], "BB_Lower")]]

\* whether _save_indicators_to_cache gets as far as save_technical_indicators:
\* row['Datetime'] raises KeyError on a frame without that column
IndicatorsListBuilds(data) == "Datetime" \in DOMAIN data[1]

\* _save_indicators_to_cache: the table after the call; an exception is
\* swallowed and a fault in the store writes nothing
_save_indicators_to_cache(rows, data, ticker, fault, utc) ==
    IF IndicatorsListBuilds(data) /\ ~fault
    THEN save_technical_indicators(rows, IndicatorsList(data, ticker), utc)
    ELSE rows

Requested(indicators) == IF indicators = None THEN DefaultIndicators ELSE indicators[1]

\* calculate_indicators, called on the frame that fetch_stock_data has just
\* returned (app.py:162-194)
calculate_indicators(data, ticker, indicators, ta, fault) ==
    LET loop == IF data = <<>> THEN [data |-> data, raised |-> TRUE]
                ELSE CalculateLoop(data, Requested(indicators), ta)
        saves == ~loop.raised /\ IndicatorsListBuilds(loop.data) /\ ~fault
    IN  /\ technical_indicators' =
             IF loop.raised THEN technical_indicators
             ELSE _save_indicators_to_cache(technical_indicators, loop.data, ticker,
                                            fault, now)
        /\ last' = [op |-> "calculate", ticker |-> ticker,
                    indicators |-> Requested(indicators), ta |-> ta, fault |-> fault,
                    data |-> data, raised |-> loop.raised, saved |-> saves,
                    result |-> loop.data]
        /\ UNCHANGED <<now, tzOffset, stock_data, watchlist_tickers, gateway_calls>>

\* what the library and the store can do in a calculate_indicators call: the
\* store is reached only when the loop has ended without an exception
CalculateInputs(data, indicators) ==
    { c \in [ta : TaOutcomes, fault : BOOLEAN] :
        /\ c.fault => /\ ~CalculateLoop(data, Requested(indicators), c.ta).raised
                      /\ IndicatorsListBuilds(data)
        /\ c.ta.failing # "none" =>
              /\ "Close" \in DOMAIN data[1]
              /\ \E i \in 1..Len(Requested(indicators)) :
                    Requested(indicators)[i] = c.ta.failing }

CalculateIndicators ==
    /\ last.op = "fetch" /\ last.result # None
    /\ \E indicators \in IndicatorLists :
         \E c \in CalculateInputs(last.result[1], indicators) :
            calculate_indicators(last.result[1], last.ticker, indicators, c.ta, c.fault)

\* the sum of close[from..to]
RECURSIVE SumOf(_, _, _)
SumOf(close, from, to) ==
    IF from > to THEN 0 ELSE close[from] + SumOf(close, from + 1, to)

\* a moving average that is given a value from the first observation on
SmaFilledFromStart(close, window) ==
    [i \in 1..Len(close) |->
        IF i < window THEN SumOf(close, 1, i) \div i
        ELSE SumOf(close, i - window + 1, i) \div window]

\* ta.trend.sma_indicator(close, window): the mean of the trailing `window`
\* values, NaN until that many exist.  The closes are whole numbers drawn so
\* that the means are whole.
sma_indicator(close, window) ==
    [i \in 1..Len(close) |->
        IF i < window THEN NaN ELSE SumOf(close, i - window + 1, i) \div window]

\* the closes of the series given to the SMA: the same close on every bar, or
\* a first bar that is higher by the length of the window
SmaCloses == {0, 7, 11}

SmaSeries ==
    { [i \in 1..n |-> c] : n \in 1..MaxBars, c \in SmaCloses }
        \cup { [i \in 1..n |-> IF i = 1 THEN c + Sma20Window ELSE c] :
                 n \in 1..MaxBars, c \in SmaCloses }

\* data['SMA_20'] = ta.trend.sma_indicator(data['Close'], window=20)
CalculateSma20 ==
    \E close \in SmaSeries :
        /\ last' = [op |-> "SMA_20", close |-> close,
                    SMA_20 |-> sma_indicator(close, Sma20Window)]
        /\ UNCHANGED <<now, tzOffset, stock_data, technical_indicators, watchlist_tickers,
                       gateway_calls>>

\* float(v) if pd.notna(v) else default
NotNaOr(v, default) == IF v # NaN THEN v ELSE default

\* a rule that reads a missing RSI as 0
RsiSignalMissingAsZero(latest, previous) ==
    LET current_rsi == NotNaOr(latest.RSI_14, 0)
        prev_rsi == NotNaOr(previous.RSI_14, 0)
    IN  IF current_rsi < 30 /\ prev_rsi >= 30 THEN "Buy Signal (Oversold)"
        ELSE IF current_rsi > 70 /\ prev_rsi <= 70 THEN "Sell Signal (Overbought)"
        ELSE "Hold"

RsiSignal(latest, previous) ==
    LET current_rsi == NotNaOr(latest.RSI_14, 50)
        prev_rsi == NotNaOr(previous.RSI_14, 50)
    IN  IF current_rsi < 30 /\ prev_rsi >= 30 THEN "Buy Signal (Oversold)"
        ELSE IF current_rsi > 70 /\ prev_rsi <= 70 THEN "Sell Signal (Overbought)"
        ELSE "Hold"

\* a rule that asks for the previous MACD to be strictly on the other side
MacdSignalStrictCross(latest, previous) ==
    LET current_macd == NotNaOr(latest.MACD, 0)
        current_signal == NotNaOr(latest.MACD_Signal, 0)
        prev_macd == NotNaOr(previous.MACD, 0)
        prev_signal == NotNaOr(previous.MACD_Signal, 0)
    IN  IF current_macd > current_signal /\ prev_macd < prev_signal
        THEN "Buy Signal (MACD Cross Above)"
        ELSE IF current_macd < current_signal /\ prev_macd > prev_signal
        THEN "Sell Signal (MACD Cross Below)"
        ELSE "Hold"

MacdSignal(latest, previous) ==
    LET current_macd == NotNaOr(latest.MACD, 0)
        current_signal == NotNaOr(latest.MACD_Signal, 0)
        prev_macd == NotNaOr(previous.MACD, 0)
        prev_signal == NotNaOr(previous.MACD_Signal, 0)
    IN  IF current_macd > current_signal /\ prev_macd <= prev_signal
        THEN "Buy Signal (MACD Cross Above)"
        ELSE IF current_macd < current_signal /\ prev_macd >= prev_signal
        THEN "Sell Signal (MACD Cross Below)"
        ELSE "Hold"

MaSignal(latest) ==
    LET current_price == latest.Close
        sma_20 == NotNaOr(latest.SMA_20, current_price)
        ema_20 == NotNaOr(latest.EMA_20, current_price)
    IN  IF current_price > sma_20 /\ current_price > ema_20
        THEN "Bullish (Price Above MAs)"
        ELSE IF current_price < sma_20 /\ current_price < ema_20
        THEN "Bearish (Price Below MAs)"
        ELSE "Neutral"

\* get_trading_signals: the dict of signals, keyed by "rsi", "macd", "ma"; {}
\* for a frame of fewer than two rows and when latest['Close'] raises
get_trading_signals(data) ==
    IF Len(data) < 2 THEN <<>>
    ELSE LET latest == data[Len(data)]
             previous == data[Len(data) - 1]
             columns == DOMAIN data[1]
             rsi == "RSI_14" \in columns
             macd == "MACD" \in columns /\ "MACD_Signal" \in columns
             ma == "SMA_20" \in columns /\ "EMA_20" \in columns
             keys == (IF rsi THEN {"rsi"} ELSE {}) \cup (IF macd THEN {"macd"} ELSE {})
                        \cup (IF ma THEN {"ma"} ELSE {})
         IN  IF ma /\ "Close" \notin columns THEN <<>>
             ELSE [k \in keys |->
                     CASE k = "rsi"  -> RsiSignal(latest, previous)
                       [] k = "macd" -> MacdSignal(latest, previous)
                       [] k = "ma"   -> MaSignal(latest)]

\* the values of the MACD line and of its signal line, and of the RSI
MacdValues == {NaN, 0, 1, 2}

RsiValues == {NaN, 20, 30, 70, 80}

SignalRows ==
    [Close : {10}, MACD : MacdValues, MACD_Signal : MacdValues]
        \cup [Close : {10}, RSI_14 : RsiValues]

\* the frames handed to get_trading_signals: one row, or two rows with the same
\* columns
SignalFrames ==
    { <<r>> : r \in SignalRows }
        \cup { <<p, r>> : p, r \in [Close : {10}, MACD : MacdValues, MACD_Signal : MacdValues] }
        \cup { <<p, r>> : p, r \in [Close : {10}, RSI_14 : RsiValues] }

GetTradingSignals ==
    \E data \in SignalFrames :
        /\ last' = [op |-> "signals", data |-> data, signals |-> get_trading_signals(data)]
        /\ UNCHANGED <<now, tzOffset, stock_data, technical_indicators, watchlist_tickers,
                       gateway_calls>>

\* the fetch made by the dashboard: ticker, period and use_cache, no interval
DashboardRequests == { <<"AAPL", "1d", None>> }

DashboardFetch ==
    \E req \in DashboardRequests, use_cache \in BOOLEAN :
        \E c \in FetchInputs(req[1], req[2], Interval(req[2], req[3]), use_cache) :
            fetch_stock_data(req[1], req[2], req[3], use_cache, c.gw, c.faults)

-----------------------------------------------------------------------------
(* Watchlist inputs.  A symbol is a sequence of characters. *)

RawSymbols == { <<>>, <<" ">>, <<"A">>, <<"a">> }

\* what yf.Ticker(t).info can do: raise, lack 'symbol', describe the company
InfoOutcomes ==
    { [kind |-> "error"],
      [kind |-> "nosymbol"],
      [kind |-> "ok", longName |-> Some(<<"Apple Inc.">>), sector |-> Some("Technology")] }

\* (notes, target_price, stop_loss, priority) of add_ticker_to_watchlist
AddArgs ==
    { <<None, None, None, 3>>,
      <<Some("buy"), Some(150), Some(100), 7>> }

\* the keyword arguments of update_watchlist_ticker
UpdateArgs ==
    { [priority |-> 0, notes |-> Some("hold"), sector |-> "Other"],
      [is_active |-> TRUE] }

-----------------------------------------------------------------------------
(* str.strip() and str.upper() *)

Whitespace == {" "}

RECURSIVE LStrip(_)
LStrip(s) == IF s # <<>> /\ Head(s) \in Whitespace THEN LStrip(Tail(s)) ELSE s

RECURSIVE RStrip(_)
RStrip(s) ==
    IF s # <<>> /\ s[Len(s)] \in Whitespace THEN RStrip(SubSeq(s, 1, Len(s) - 1)) ELSE s

Strip(s) == RStrip(LStrip(s))

UpperChar(c) ==
    CASE c = "a" -> "A"
      [] c = "m" -> "M"
      [] OTHER   -> c

Upper(s) == [i \in 1..Len(s) |-> UpperChar(s[i])]

-----------------------------------------------------------------------------
(* database/database_manager.py: table watchlist_tickers *)

\* a membership test that compares the upper-cased symbols
IsTickerInWatchlistFolded(rows, ticker) ==
    Cardinality({ r \in rows : Upper(r.ticker) = Upper(ticker) /\ r.is_active }) > 0

\* SELECT COUNT(*) ... WHERE ticker = ? AND is_active = 1
is_ticker_in_watchlist(rows, ticker) ==
    Cardinality({ r \in rows : r.ticker = ticker /\ r.is_active }) > 0

\* an INSERT into a table whose ticker column is not UNIQUE
InsertWithoutUnique(rows, wt) == TRUE

\* whether the INSERT of add_watchlist_ticker goes through: UNIQUE(ticker)
InsertAccepted(rows, wt) == \A r \in rows : r.ticker # wt.ticker

\* add_watchlist_ticker: the table after the call
add_watchlist_ticker(rows, wt) ==
    IF InsertAccepted(rows, wt) THEN rows \cup {wt} ELSE rows

\* ORDER BY priority ASC, added_date DESC: whether r may come before s
ComesBefore(r, s) ==
    \/ r.priority < s.priority
    \/ r.priority = s.priority /\ r.added_date >= s.added_date

\* the orders in which the query can return the rows of S; rows equal in
\* priority and added_date come in either order
RECURSIVE OrderByPriorityAddedDate(_)
OrderByPriorityAddedDate(S) ==
    IF S = {} THEN { <<>> }
    ELSE UNION { { <<r>> \o rest : rest \in OrderByPriorityAddedDate(S \ {r}) } :
                   r \in { q \in S : \A s \in S : ComesBefore(q, s) } }

\* a query without the WHERE is_active = 1 clause
ListEveryRow(rows, active_only) == OrderByPriorityAddedDate(rows)

\* get_watchlist_tickers: the lists the call can return.  The three dates of a
\* row are written and parsed back in ISO format, which keeps their instants.
get_watchlist_tickers(rows, active_only) ==
    OrderByPriorityAddedDate(IF active_only THEN { r \in rows : r.is_active } ELSE rows)

\* DELETE FROM watchlist_tickers WHERE ticker = ?
RemoveByDelete(rows, ticker, utc) == { r \in rows : r.ticker # ticker }

\* UPDATE ... SET is_active = 0, updated_at = CURRENT_TIMESTAMP WHERE ticker = ?
remove_watchlist_ticker(rows, ticker, utc) ==
    { IF r.ticker = ticker THEN [r EXCEPT !.is_active = FALSE, !.updated_at = utc] ELSE r
        : r \in rows }

UpdatableFields == {"notes", "target_price", "stop_loss", "priority", "is_active", "updated_at"}

\* an UPDATE that sets every key it is given
UpdateEveryKey(rows, ticker, kwargs) ==
    LET set_clauses == DOMAIN kwargs
        Updated(r) == [f \in DOMAIN r |-> IF f \in set_clauses THEN kwargs[f] ELSE r[f]]
    IN  IF set_clauses = {} THEN rows
        ELSE { IF r.ticker = ticker THEN Updated(r) ELSE r : r \in rows }

\* UPDATE ... SET <the updatable keys of kwargs> WHERE ticker = ?
update_watchlist_ticker(rows, ticker, kwargs) ==
    LET set_clauses == DOMAIN kwargs \cap UpdatableFields
        Updated(r) == [f \in DOMAIN r |-> IF f \in set_clauses THEN kwargs[f] ELSE r[f]]
    IN  IF set_clauses = {} THEN rows
        ELSE { IF r.ticker = ticker THEN Updated(r) ELSE r : r \in rows }

\* the row count of an UPDATE that passes over soft-deleted rows
RowsMatchedActive(rows, ticker) == \E r \in rows : r.ticker = ticker /\ r.is_active

\* cursor.rowcount > 0 of an UPDATE ... WHERE ticker = ?
RowsMatched(rows, ticker) == \E r \in rows : r.ticker = ticker

-----------------------------------------------------------------------------
(* services/watchlist_service.py *)

validate_ticker(raw, info) ==
    LET ticker == Upper(Strip(raw))
    IN  IF ticker = <<>>
        THEN [valid |-> FALSE, error |-> "Ticker symbol cannot be empty"]
        ELSE IF info.kind = "error"
        THEN [valid |-> FALSE, error |-> "Error validating ticker"]
        ELSE IF info.kind = "nosymbol"
        THEN [valid |-> FALSE, error |-> "not found"]
        ELSE [valid |-> TRUE, ticker |-> ticker,
              company_name |-> IF info.longName # None THEN info.longName[1] ELSE ticker,
              sector |-> IF info.sector # None THEN info.sector[1] ELSE "Unknown"]

\* a validation that asks the gateway before it looks at the symbol
LookupBeforeEmptyCheck(raw) == {"info"}

\* the lookups a validate_ticker call makes: yf.Ticker(ticker).info is read
\* only for a symbol that is not empty once cleaned
ValidateCalls(raw) == IF Upper(Strip(raw)) = <<>> THEN {} ELSE {"info"}

\* the WatchlistTicker object built by add_ticker_to_watchlist
NewWatchlistTicker(ticker, validation_result, notes, target_price, stop_loss, priority, localNow) ==
    [ticker |-> ticker,
     company_name |-> validation_result.company_name,
     sector |-> validation_result.sector,
     added_date |-> localNow,
     notes |-> notes,
     target_price |-> target_price,
     stop_loss |-> stop_loss,
     is_active |-> TRUE,
     priority |-> priority,
     created_at |-> localNow,
     updated_at |-> localNow]

\* the outcome of add_ticker_to_watchlist: "added", or why nothing was added
AddOutcome(rows, ticker, info, faults) ==
    IF ~validate_ticker(ticker, info).valid THEN "invalid"
    ELSE IF "is_ticker_in_watchlist" \notin faults /\ is_ticker_in_watchlist(rows, ticker)
    THEN "duplicate"
    ELSE IF "add_watchlist_ticker" \in faults
            \/ ~InsertAccepted(rows, [ticker |-> ticker])
    THEN "not saved"
    ELSE "added"

\* the gateway lookups and store operations an add_ticker_to_watchlist call makes
AddCalls(rows, ticker, info, faults) ==
    ValidateCalls(ticker)
        \cup (IF AddOutcome(rows, ticker, info, faults) = "invalid" THEN {}
              ELSE IF AddOutcome(rows, ticker, info, faults) = "duplicate"
              THEN {"is_ticker_in_watchlist"}
              ELSE {"is_ticker_in_watchlist", "add_watchlist_ticker"})

add_ticker_to_watchlist(ticker, notes, target_price, stop_loss, priority, info, faults) ==
    LET outcome == AddOutcome(watchlist_tickers, ticker, info, faults)
        wt == NewWatchlistTicker(ticker, validate_ticker(ticker, info), notes,
                                 target_price, stop_loss, priority, LocalNow)
    IN  /\ watchlist_tickers' =
             IF outcome = "added" THEN add_watchlist_ticker(watchlist_tickers, wt)
             ELSE watchlist_tickers
        /\ last' = [op |-> "add", ticker |-> ticker,
                    success |-> outcome = "added", outcome |-> outcome,
                    calls |-> AddCalls(watchlist_tickers, ticker, info, faults)]
        /\ UNCHANGED <<now, tzOffset, stock_data, technical_indicators, gateway_calls>>

\* what the lookups and store operations of an add_ticker_to_watchlist call
\* can do; for a symbol that is empty once cleaned there is no lookup
AddInputs(ticker) ==
    IF Upper(Strip(ticker)) = <<>> THEN {[info |-> [kind |-> "none"], faults |-> {}]}
    ELSE { [info |-> i, faults |-> {}] : i \in InfoOutcomes }
         \cup { [info |-> i, faults |-> f] :
                  i \in { j \in InfoOutcomes : j.kind = "ok" },
                  f \in { {"is_ticker_in_watchlist"}, {"add_watchlist_ticker"} } }

AddTicker ==
    \E ticker \in RawSymbols, a \in AddArgs :
        \E c \in AddInputs(ticker) :
            add_ticker_to_watchlist(ticker, a[1], a[2], a[3], a[4], c.info, c.faults)

\* validate_ticker called on its own
validate(ticker, info) ==
    /\ last' = [op |-> "validate", ticker |-> ticker,
                success |-> validate_ticker(ticker, info).valid,
                calls |-> ValidateCalls(ticker)]
    /\ UNCHANGED <<now, tzOffset, stock_data, technical_indicators, watchlist_tickers,
                   gateway_calls>>

ValidateTicker ==
    \E ticker \in RawSymbols :
        \E c \in { d \in AddInputs(ticker) : d.faults = {} } : validate(ticker, c.info)

remove_ticker_from_watchlist(ticker, fault) ==
    /\ watchlist_tickers' =
         IF fault THEN watchlist_tickers
         ELSE remove_watchlist_ticker(watchlist_tickers, ticker, now)
    /\ last' = [op |-> "remove", ticker |-> ticker, fault |-> fault,
                found |-> { r \in watchlist_tickers : r.ticker = ticker },
                success |-> ~fault /\ RowsMatched(watchlist_tickers, ticker)]
    /\ UNCHANGED <<now, tzOffset, stock_data, technical_indicators, gateway_calls>>

RemoveTicker ==
    \E ticker \in RawSymbols, fault \in BOOLEAN : remove_ticker_from_watchlist(ticker, fault)

\* update_watchlist_ticker of the service: kwargs['updated_at'] = datetime.now()
WithUpdatedAt(kwargs, localNow) ==
    [f \in DOMAIN kwargs \cup {"updated_at"} |->
        IF f = "updated_at" THEN localNow ELSE kwargs[f]]

update_ticker(ticker, kwargs, fault) ==
    LET kw == WithUpdatedAt(kwargs, LocalNow)
    IN  /\ watchlist_tickers' =
             IF fault THEN watchlist_tickers
             ELSE update_watchlist_ticker(watchlist_tickers, ticker, kw)
        /\ last' = [op |-> "update", ticker |-> ticker, kwargs |-> kwargs,
                    success |-> /\ ~fault
                                /\ DOMAIN kw \cap UpdatableFields # {}
                                /\ RowsMatched(watchlist_tickers, ticker)]
        /\ UNCHANGED <<now, tzOffset, stock_data, technical_indicators, gateway_calls>>

UpdateTicker ==
    \E ticker \in RawSymbols, kwargs \in UpdateArgs, fault \in BOOLEAN :
        update_ticker(ticker, kwargs, fault)

\* get_watchlist_tickers of the service; a fault in the store gives []
list_tickers(active_only, fault) ==
    /\ \E result \in get_watchlist_tickers(watchlist_tickers, active_only) :
          last' = [op |-> "list", active_only |-> active_only, fault |-> fault,
                   result |-> IF fault THEN <<>> ELSE result]
    /\ UNCHANGED <<now, tzOffset, stock_data, technical_indicators, watchlist_tickers,
                   gateway_calls>>

ListTickers == \E active_only \in BOOLEAN, fault \in BOOLEAN : list_tickers(active_only, fault)

\* get_most_recent_ticker: the ticker of the first entry of the active list,
\* None when the list is empty (also after a fault in the store)
get_most_recent_ticker(fault) ==
    /\ \E tickers \in get_watchlist_tickers(watchlist_tickers, TRUE) :
          last' = [op |-> "most_recent", fault |-> fault,
                   result |-> IF fault \/ tickers = <<>> THEN None
                              ELSE Some(tickers[1].ticker)]
    /\ UNCHANGED <<now, tzOffset, stock_data, technical_indicators, watchlist_tickers,
                   gateway_calls>>

MostRecentTicker == \E fault \in BOOLEAN : get_most_recent_ticker(fault)

-----------------------------------------------------------------------------
(* The methods of DatabaseManager called one by one.  Each runs in a
   `with sqlite3.connect(...)` block inside try/except: a storage fault is
   caught and the method returns its failure value. *)

\* a connection that commits each statement as it is executed
AutoCommit(before, written, raised) == written

\* with sqlite3.connect(...) as conn: the statements of the block are committed
\* together, and rolled back when one of them raises
Transaction(before, written, raised) == IF raised THEN before ELSE written

\* the records of a batch executed before the statement fault_at raises
\* (fault_at = 0: none raises)
Executed(batch, fault_at) ==
    IF fault_at = 0 THEN batch ELSE SubSeq(batch, 1, fault_at - 1)

\* the batches of bars and of indicator records handed to the store
StoreBars ==
    { StockDataList(gw.data, req[1], req[2], Interval(req[2], req[3])) :
        gw \in { g \in GatewayOutcomes : g.kind = "ok" /\ BatchBuilds(g.data) },
        req \in DashboardRequests }

StoreIndicators ==
    { IndicatorsList(WithColumns(gw.data, {"SMA_20"}, [kind |-> "trend", failing |-> "none"]),
                     req[1]) :
        gw \in { g \in GatewayOutcomes : g.kind = "ok" /\ Len(g.data) = 2 },
        req \in DashboardRequests }

StoreSymbols == { <<"A">> }

\* (ticker, period, interval) and limit arguments of get_stock_data
QueryKeys ==
    { <<"AAPL", "1d", "1m">>, <<"MSFT", "5d", "1m">>, <<"MSFT", "1d", "1m">>,
      <<"AAPL", "5d", "1m">>, <<"AAPL", "1d", "5m">> }

QueryLimits == { None, Some(0), Some(1), Some(2) }

StoreUpdates == { [priority |-> 1, updated_at |-> 1] }

SaveStockData ==
    \E batch \in StoreBars : \E fault_at \in 0..Len(batch) :
        /\ stock_data' =
             Transaction(stock_data,
                         save_stock_data(stock_data, Executed(batch, fault_at), now),
                         fault_at # 0)
        /\ last' = [op |-> "save_stock_data", batch |-> batch, fault_at |-> fault_at,
                    fault |-> fault_at # 0, returned |-> Bool(fault_at = 0)]
        /\ UNCHANGED <<now, tzOffset, technical_indicators, watchlist_tickers, gateway_calls>>

SaveTechnicalIndicators ==
    \E batch \in StoreIndicators : \E fault_at \in 0..Len(batch) :
        /\ technical_indicators' =
             Transaction(technical_indicators,
                         save_technical_indicators(technical_indicators,
                                                   Executed(batch, fault_at), now),
                         fault_at # 0)
        /\ last' = [op |-> "save_technical_indicators", batch |-> batch,
                    fault_at |-> fault_at, fault |-> fault_at # 0,
                    returned |-> Bool(fault_at = 0)]
        /\ UNCHANGED <<now, tzOffset, stock_data, watchlist_tickers, gateway_calls>>

GetStockData ==
    \E key \in QueryKeys, limit \in QueryLimits, fault \in BOOLEAN :
        /\ last' = [op |-> "get_stock_data", ticker |-> key[1], period |-> key[2],
                    interval |-> key[3], limit |-> limit, fault |-> fault,
                    returned |-> DataFrame(IF fault THEN <<>>
                                           ELSE get_stock_data(stock_data, key[1], key[2],
                                                               key[3], limit))]
        /\ UNCHANGED <<now, tzOffset, stock_data, technical_indicators, watchlist_tickers,
                       gateway_calls>>

GetTechnicalIndicators ==
    \E req \in DashboardRequests, fault \in BOOLEAN :
        /\ last' = [op |-> "get_technical_indicators", fault |-> fault,
                    returned |-> DataFrame(IF fault THEN <<>>
                                           ELSE get_technical_indicators(technical_indicators,
                                                                         req[1], None))]
        /\ UNCHANGED <<now, tzOffset, stock_data, technical_indicators, watchlist_tickers,
                       gateway_calls>>

IsDataCached ==
    \E req \in DashboardRequests, fault \in BOOLEAN :
        /\ last' = [op |-> "is_data_cached", fault |-> fault,
                    returned |-> Bool(/\ ~fault
                                      /\ is_data_cached(stock_data, req[1], req[2],
                                              Interval(req[2], req[3]), LocalNow))]
        /\ UNCHANGED <<now, tzOffset, stock_data, technical_indicators, watchlist_tickers,
                       gateway_calls>>

AddWatchlistTicker ==
    \E ticker \in StoreSymbols, a \in AddArgs, fault \in BOOLEAN :
        LET wt == NewWatchlistTicker(ticker, [company_name |-> ticker, sector |-> "Unknown"],
                                     a[1], a[2], a[3], a[4], LocalNow)
        IN  /\ watchlist_tickers' =
                 IF fault THEN watchlist_tickers
                 ELSE add_watchlist_ticker(watchlist_tickers, wt)
            /\ last' = [op |-> "add_watchlist_ticker", fault |-> fault,
                        returned |-> Bool(~fault /\ InsertAccepted(watchlist_tickers, wt))]
            /\ UNCHANGED <<now, tzOffset, stock_data, technical_indicators, gateway_calls>>

GetWatchlistTickers ==
    \E active_only \in BOOLEAN, fault \in BOOLEAN :
        \E result \in get_watchlist_tickers(watchlist_tickers, active_only) :
            /\ last' = [op |-> "get_watchlist_tickers", fault |-> fault,
                        returned |-> List(IF fault THEN <<>> ELSE result)]
            /\ UNCHANGED <<now, tzOffset, stock_data, technical_indicators,
                           watchlist_tickers, gateway_calls>>

IsTickerInWatchlist ==
    \E ticker \in StoreSymbols, fault \in BOOLEAN :
        /\ last' = [op |-> "is_ticker_in_watchlist", fault |-> fault,
                    returned |-> Bool(~fault /\ is_ticker_in_watchlist(watchlist_tickers,
                                                                        ticker))]
        /\ UNCHANGED <<now, tzOffset, stock_data, technical_indicators, watchlist_tickers,
                       gateway_calls>>

RemoveWatchlistTicker ==
    \E ticker \in StoreSymbols, fault \in BOOLEAN :
        /\ watchlist_tickers' =
             IF fault THEN watchlist_tickers
             ELSE remove_watchlist_ticker(watchlist_tickers, ticker, now)
        /\ last' = [op |-> "remove_watchlist_ticker", fault |-> fault,
                    returned |-> Bool(~fault /\ RowsMatched(watchlist_tickers, ticker))]
        /\ UNCHANGED <<now, tzOffset, stock_data, technical_indicators, gateway_calls>>

UpdateWatchlistTicker ==
    \E ticker \in StoreSymbols, kwargs \in StoreUpdates, fault \in BOOLEAN :
        /\ watchlist_tickers' =
             IF fault THEN watchlist_tickers
             ELSE update_watchlist_ticker(watchlist_tickers, ticker, kwargs)
        /\ last' = [op |-> "update_watchlist_ticker", fault |-> fault,
                    returned |-> Bool(/\ ~fault
                                      /\ DOMAIN kwargs \cap UpdatableFields # {}
                                      /\ RowsMatched(watchlist_tickers, ticker))]
        /\ UNCHANGED <<now, tzOffset, stock_data, technical_indicators, gateway_calls>>

-----------------------------------------------------------------------------
(* The clock *)

Tick(d) ==
    /\ now + d <= MaxTime
    /\ now' = now + d
    /\ last' = [op |-> "tick"]
    /\ UNCHANGED <<tzOffset, stock_data, technical_indicators, watchlist_tickers,
                   gateway_calls>>

\* one minute passes
TickMinute == Tick(1)

\* a whole cache lifetime passes
TickLifetime == Tick(CACHE_DURATION_MINUTES)

-----------------------------------------------------------------------------

Init ==
    /\ now = 0
    /\ tzOffset \in TzOffsets
    /\ stock_data = {}
    /\ technical_indicators = {}
    /\ watchlist_tickers = {}
    /\ gateway_calls = 0
    /\ last = [op |-> "init"]

\* the cache coordinator and the store of bars
Next == FetchStockData \/ ClearOldData \/ TickMinute \/ TickLifetime

Spec == Init /\ [][Next]_vars

\* the watchlist manager
WatchNext ==
    \/ ValidateTicker \/ AddTicker \/ RemoveTicker \/ UpdateTicker
    \/ ListTickers \/ MostRecentTicker \/ ClearOldData \/ TickLifetime

WatchSpec == Init /\ [][WatchNext]_vars

\* the dashboard: a series is fetched and its indicators are computed and stored
IndicatorNext ==
    DashboardFetch \/ CalculateIndicators \/ ClearOldData \/ TickLifetime

IndicatorSpec == Init /\ [][IndicatorNext]_vars

\* the store on its own: any method, in any order
StoreNext ==
    \/ SaveStockData \/ SaveTechnicalIndicators
    \/ GetStockData \/ GetTechnicalIndicators \/ IsDataCached \/ ClearOldData
    \/ AddWatchlistTicker \/ GetWatchlistTickers \/ IsTickerInWatchlist
    \/ RemoveWatchlistTicker \/ UpdateWatchlistTicker
    \/ TickLifetime

StoreSpec == Init /\ [][StoreNext]_vars

\* the store filled by the cache coordinator and queried directly
QueryNext == FetchStockData \/ GetStockData \/ TickLifetime

QuerySpec == Init /\ [][QueryNext]_vars

\* the gateway called directly
GatewayNext == FetchFromYahoo \/ TickMinute

GatewaySpec == Init /\ [][GatewayNext]_vars

\* the moving average of the indicator engine
SmaNext == CalculateSma20

SmaSpec == Init /\ [][SmaNext]_vars

\* the signals of the indicator engine
SignalNext == GetTradingSignals

SignalSpec == Init /\ [][SignalNext]_vars

-----------------------------------------------------------------------------
(* Properties of the cache coordinator and the store of bars *)

SameKey(a, b) ==
    a.ticker = b.ticker /\ a.period = b.period /\ a.interval = b.interval

Fresh(rows, call) ==
    is_data_cached(rows, call.ticker, call.period, call.interval, LocalNow)

\* a call that went to the gateway and got a non-empty frame
Fetched(call) == call.op = "fetch" /\ ~call.hit /\ call.gateway = "ok"

\* C1: a second getSeries(useCache=true) for the same key, made within the TTL
\* window of the first call's write, returns a series identical to the first
\* call's result (same bars, same field names, same order) and is served from
\* the store without a gateway call.  (Stated for a second call that follows
\* the first at once and meets no storage fault.)
C1_SecondCallIdenticalFromStore ==
    [][ ( /\ last.op = "fetch" /\ last.use_cache /\ last.saved
          /\ last'.op = "fetch" /\ last'.use_cache /\ SameKey(last, last')
          /\ last'.faults = {} )
        => ( /\ last'.hit
             /\ gateway_calls' = gateway_calls
             /\ last'.result = last.result ) ]_vars

\* C2: when the cache is not used and the gateway fails or returns an empty
\* result, getSeries returns None, whatever stale bars the store holds for the
\* key, and the call leaves the store unchanged.
C2_GatewayFailureReturnsNone ==
    [][ ( /\ last'.op = "fetch" /\ ~last'.hit
          /\ last'.gateway \in {"error", "empty"} )
        => ( /\ last'.result = None
             /\ stock_data' = stock_data
             /\ technical_indicators' = technical_indicators
             /\ watchlist_tickers' = watchlist_tickers ) ]_vars

\* C2 witness: the gateway failed while the store held stale bars of the key.
C2_Witness ==
    /\ last.op = "fetch" /\ ~last.hit
    /\ last.gateway \in {"error", "empty"}
    /\ last.result = None
    /\ KeyRows(stock_data, last.ticker, last.period, last.interval) # {}
    /\ ~Fresh(stock_data, last)

\* C3: is_data_cached for a key is true exactly when some stored bar of exactly
\* that ticker, period and interval was written later than now minus the TTL.
C3_FreshIffWrittenWithinTTL ==
    \A req \in Requests :
        LET interval == Interval(req[2], req[3])
        IN  is_data_cached(stock_data, req[1], req[2], interval, LocalNow)
            <=> \E r \in KeyRows(stock_data, req[1], req[2], interval) :
                    r.created_at > now - CACHE_DURATION_MINUTES

\* C4: when getSeries misses the cache and the gateway returns a non-empty
\* series (and the write goes through), every bar of the series is stored under
\* the key, the series returned is the gateway's, and the key is fresh at once.
C4_WriteThrough ==
    [][ ( Fetched(last') /\ last'.saved )
        => ( /\ \A i \in 1..Len(last'.fetched) :
                   StockDataList(last'.fetched, last'.ticker, last'.period,
                                 last'.interval)[i]
                       \in { Values(r) : r \in stock_data' }
             /\ last'.result = Some(last'.fetched)
             /\ Fresh(stock_data', last') ) ]_vars

\* C5 as stated: when persisting the fetched series fails, getSeries still
\* returns the series, and the next getSeries(useCache=true) for the key goes to
\* the gateway again.
C5_NextCallGoesToGateway ==
    /\ [][ ( Fetched(last') /\ ~last'.saved ) => last'.result = Some(last'.fetched) ]_vars
    /\ [][ ( /\ Fetched(last) /\ ~last.saved
             /\ last'.op = "fetch" /\ last'.use_cache /\ SameKey(last, last')
             /\ last'.faults = {} )
           => ( ~last'.hit /\ gateway_calls' = gateway_calls + 1 ) ]_vars

\* C5 amended: when persisting the fetched series fails, getSeries still returns
\* the series and the store is left as it was, so the key is fresh afterwards
\* only if it was fresh before; the next getSeries(useCache=true) for the key
\* goes to the gateway again unless the key was fresh already.
C5_PersistFailureLeavesStore ==
    /\ [][ ( Fetched(last') /\ ~last'.saved )
           => ( /\ last'.result = Some(last'.fetched)
                /\ stock_data' = stock_data
                /\ (Fresh(stock_data', last') => Fresh(stock_data, last')) ) ]_vars
    /\ [][ ( /\ Fetched(last) /\ ~last.saved
             /\ last'.op = "fetch" /\ last'.use_cache /\ SameKey(last, last')
             /\ last'.faults = {}
             /\ ~Fresh(stock_data, last) )
           => ( ~last'.hit /\ gateway_calls' = gateway_calls + 1 ) ]_vars

\* C5 witness: a write failed for a key that an earlier write had made fresh.
C5_Witness ==
    /\ Fetched(last) /\ ~last.saved
    /\ last.result = Some(last.fetched)
    /\ Fresh(stock_data, last)

\* the batches _save_to_cache can hand to save_stock_data
Batches ==
    { StockDataList(gw.data, req[1], req[2], Interval(req[2], req[3])) :
        gw \in { g \in GatewayOutcomes : g.kind = "ok" /\ BatchBuilds(g.data) },
        req \in Requests }

\* C6: save_stock_data is idempotent on (ticker, datetime, period, interval):
\* after the same batch is applied twice the store holds as many bars, with the
\* same values, as after it is applied once; and no two stored bars share a
\* natural key.
C6_UpsertIdempotent ==
    /\ \A r, s \in stock_data : SameNaturalKey(r, s) => r = s
    /\ \A batch \in Batches :
         LET once == save_stock_data(stock_data, batch, now)
             twice == save_stock_data(once, batch, now + 1)
         IN  /\ Cardinality(twice) = Cardinality(once)
             /\ { Values(r) : r \in twice } = { Values(r) : r \in once }
             /\ \A r, s \in twice : SameNaturalKey(r, s) => r = s

\* C6 witness: a batch already stored with the same values was written again,
\* at a later time.
C6_Witness ==
    /\ last.op = "fetch" /\ last.saved /\ last.reapplied
    /\ now > 0
    /\ \A r \in KeyRows(stock_data, last.ticker, last.period, last.interval) :
           r.created_at = now

\* C25: getSeries with useCache=false never reads the store and calls the
\* gateway on every call, also when the key is fresh; on a non-empty result it
\* writes the series through (no storage fault met), and every bar of the key
\* it wrote carries the time of the call as its write time.
C25_NoCacheAlwaysFetches ==
    [][ ( last'.op = "fetch" /\ ~last'.use_cache )
        => ( /\ ~last'.hit
             /\ last'.calls \cap {"is_data_cached", "get_stock_data"} = {}
             /\ "download" \in last'.calls
             /\ gateway_calls' = gateway_calls + 1
             /\ last'.result = IF last'.gateway = "ok" THEN Some(last'.fetched) ELSE None
             /\ ( last'.result # None /\ last'.faults = {} /\ BatchBuilds(last'.fetched) )
                   => ( /\ last'.saved
                        /\ \A i \in 1..Len(last'.fetched) :
                              \E r \in KeyRows(stock_data', last'.ticker, last'.period,
                                               last'.interval) :
                                  /\ Values(r) = StockDataList(last'.fetched, last'.ticker,
                                                     last'.period, last'.interval)[i]
                                  /\ r.created_at = now ) ) ]_vars

\* C25 witness: a call with use_cache=False went to the gateway although the key
\* was fresh, and rewrote the bars of the key at a later time.
C25_Witness ==
    /\ last.op = "fetch" /\ ~last.use_cache /\ last.cached
    /\ ~last.hit /\ last.saved /\ last.reapplied
    /\ now > 0
    /\ \A r \in KeyRows(stock_data, last.ticker, last.period, last.interval) :
           r.created_at = now

-----------------------------------------------------------------------------
(* Properties of the watchlist manager *)

RowsOf(rows, ticker) == { r \in rows : r.ticker = ticker }

ValidInfos(ticker) == { i \in InfoOutcomes : validate_ticker(ticker, i).valid }

\* C7: for a valid symbol S with no watchlist row, addTicker(S) succeeds and
\* creates one active entry; while S is active, a further addTicker(S) is
\* rejected as a duplicate and leaves the watchlist exactly as it was.
C7_AddThenDuplicateRejected ==
    /\ [](\A S \in RawSymbols, a \in AddArgs : \A info \in ValidInfos(S) :
            LET wt == NewWatchlistTicker(S, validate_ticker(S, info),
                                         a[1], a[2], a[3], a[4], LocalNow)
                after == add_watchlist_ticker(watchlist_tickers, wt)
            IN  /\ RowsOf(watchlist_tickers, S) = {}
                   => /\ AddOutcome(watchlist_tickers, S, info, {}) = "added"
                      /\ RowsOf(after, S) = {wt}
                      /\ wt.is_active
                      /\ after \ {wt} = watchlist_tickers
                /\ is_ticker_in_watchlist(watchlist_tickers, S)
                   => AddOutcome(watchlist_tickers, S, info, {}) = "duplicate")
    /\ [][ ( last'.op = "add" /\ last'.outcome = "added" )
           => ( /\ RowsOf(watchlist_tickers, last'.ticker) = {}
                /\ Cardinality(RowsOf(watchlist_tickers', last'.ticker)) = 1
                /\ is_ticker_in_watchlist(watchlist_tickers', last'.ticker)
                /\ watchlist_tickers \subseteq watchlist_tickers'
                /\ Cardinality(watchlist_tickers') = Cardinality(watchlist_tickers) + 1 ) ]_vars
    /\ [][ ( last'.op = "add" /\ is_ticker_in_watchlist(watchlist_tickers, last'.ticker) )
           => ( /\ ~last'.success
                /\ watchlist_tickers' = watchlist_tickers ) ]_vars

\* C7 witness: an add was rejected as a duplicate of an active entry.
C7_Witness ==
    /\ last.op = "add" /\ last.outcome = "duplicate"
    /\ \E r \in RowsOf(watchlist_tickers, last.ticker) : r.is_active

\* C8: once S has been added and soft-deleted, is_ticker_in_watchlist(S) is
\* false and a further addTicker(S) fails: the row of S stays inactive with all
\* its fields unchanged and the table still holds exactly one row for S.
C8_ReAddAfterRemoveRejected ==
    /\ [](\A r, s \in watchlist_tickers : r.ticker = s.ticker => r = s)
    /\ [][ ( last'.op = "remove" /\ last'.success )
           => ~is_ticker_in_watchlist(watchlist_tickers', last'.ticker) ]_vars
    /\ [][ ( /\ last'.op = "add"
             /\ \E r \in RowsOf(watchlist_tickers, last'.ticker) : ~r.is_active )
           => ( /\ ~is_ticker_in_watchlist(watchlist_tickers, last'.ticker)
                /\ ~last'.success
                /\ last'.outcome \in {"invalid", "not saved"}
                /\ watchlist_tickers' = watchlist_tickers
                /\ Cardinality(RowsOf(watchlist_tickers', last'.ticker)) = 1 ) ]_vars

\* C8 witness: a valid symbol whose row is inactive was added again, and the
\* insert was refused.
C8_Witness ==
    /\ last.op = "add" /\ last.outcome = "not saved"
    /\ \E r \in RowsOf(watchlist_tickers, last.ticker) : ~r.is_active

Tickers(rows) == { r.ticker : r \in rows }

\* a row with the two fields the soft delete writes blanked
Kept(r) == [r EXCEPT !.is_active = FALSE, !.updated_at = 0]

\* C9: watchlist entries are never hard-deleted: whatever is called, the set of
\* tickers that have a row never shrinks, and removeTicker keeps every row,
\* clearing is_active (and refreshing updated_at) on the row of its ticker.
C9_NeverHardDeleted ==
    /\ [][ Tickers(watchlist_tickers) \subseteq Tickers(watchlist_tickers') ]_vars
    /\ [][ last'.op = "purge" => watchlist_tickers' = watchlist_tickers ]_vars
    /\ [][ last'.op = "remove"
           => /\ Cardinality(watchlist_tickers') = Cardinality(watchlist_tickers)
              /\ \A r \in watchlist_tickers :
                    IF r.ticker = last'.ticker /\ last'.success
                    THEN \E q \in watchlist_tickers' : ~q.is_active /\ Kept(q) = Kept(r)
                    ELSE r \in watchlist_tickers' ]_vars

\* C9 witness: the purge ran over a watchlist that holds a soft-deleted entry.
C9_Witness ==
    /\ last.op = "purge" /\ ~last.fault /\ last.days_to_keep = 0
    /\ \E r \in watchlist_tickers : ~r.is_active

\* the fields updateTicker may be given
MutableFields == {"notes", "target_price", "stop_loss", "priority", "is_active"}

\* the row r after an update with kwargs made at local time t
UpdatedRow(r, kwargs, t) ==
    [f \in DOMAIN r |->
        IF f \in DOMAIN kwargs \cap MutableFields THEN kwargs[f]
        ELSE IF f = "updated_at" THEN t
        ELSE r[f]]

\* C11: updateTicker(S, fields) changes on the row of S only the supplied
\* fields among notes, target_price, stop_loss, priority and is_active, plus
\* updated_at, which a successful update sets to the time of the call; other
\* keys are ignored; ticker, company_name, sector, added_date and created_at of
\* S, and every other row, stay as they were.
C11_UpdateFrame ==
    [][ last'.op = "update"
        => /\ Cardinality(watchlist_tickers') = Cardinality(watchlist_tickers)
           /\ \A r \in watchlist_tickers :
                 IF r.ticker = last'.ticker /\ last'.success
                 THEN UpdatedRow(r, last'.kwargs, LocalNow) \in watchlist_tickers'
                 ELSE r \in watchlist_tickers' ]_vars

\* C11 witness: an update given an unknown key succeeded on one of two rows.
C11_Witness ==
    /\ last.op = "update" /\ last.success
    /\ "sector" \in DOMAIN last.kwargs
    /\ Cardinality(watchlist_tickers) = 2
    /\ \E r \in RowsOf(watchlist_tickers, last.ticker) :
          /\ r.priority = last.kwargs.priority
          /\ r.sector # last.kwargs.sector
          /\ r.updated_at = LocalNow
          /\ r.updated_at > r.created_at

\* the entries of a list
Entries(seq) == { seq[i] : i \in 1..Len(seq) }

\* C12: listTickers(activeOnly=true) returns exactly the entries with is_active
\* set and listTickers(activeOnly=false) returns every entry, each once; the
\* result is ordered by priority ascending and, among equal priorities, by
\* added_date descending.
C12_ListFilteredAndOrdered ==
    [][ ( last'.op = "list" /\ ~last'.fault )
        => LET result == last'.result
           IN  /\ Entries(result) =
                     IF last'.active_only THEN { r \in watchlist_tickers : r.is_active }
                     ELSE watchlist_tickers
               /\ Len(result) = Cardinality(Entries(result))
               /\ \A i, j \in 1..Len(result) :
                     i < j => /\ result[i].priority <= result[j].priority
                              /\ result[i].priority = result[j].priority
                                    => result[i].added_date >= result[j].added_date ]_vars

\* C12 witness: two active entries of equal priority, the newer listed first.
C12_Witness ==
    /\ last.op = "list" /\ ~last.fault /\ last.active_only
    /\ Len(last.result) = 2
    /\ last.result[1].priority = last.result[2].priority
    /\ last.result[1].added_date > last.result[2].added_date

\* a symbol that is empty or holds only white space
Blank(symbol) == \A i \in 1..Len(symbol) : symbol[i] = " "

\* C13: validateTicker and addTicker called with an empty or whitespace-only
\* symbol return a failure at once: the gateway's metadata lookup is not called
\* and the store is neither read nor written.
C13_BlankSymbolRejectedBeforeIO ==
    [][ ( last'.op \in {"validate", "add"} /\ Blank(last'.ticker) )
        => ( /\ ~last'.success
             /\ last'.calls = {}
             /\ gateway_calls' = gateway_calls
             /\ watchlist_tickers' = watchlist_tickers
             /\ stock_data' = stock_data
             /\ technical_indicators' = technical_indicators ) ]_vars

\* C13 witness: a whitespace-only symbol was refused by addTicker while the
\* watchlist held entries.
C13_Witness ==
    /\ last.op = "add" /\ last.ticker = <<" ">>
    /\ ~last.success /\ last.outcome = "invalid" /\ last.calls = {}
    /\ watchlist_tickers # {}

\* C23: mostRecentTicker returns the ticker of the active entry with the latest
\* added_date, whatever the priorities are, and None when no entry is active.
C23_MostRecentTicker ==
    [][ ( last'.op = "most_recent" /\ ~last'.fault )
        => LET active == { r \in watchlist_tickers : r.is_active }
           IN  IF active = {} THEN last'.result = None
               ELSE \E r \in active :
                      /\ last'.result = Some(r.ticker)
                      /\ \A q \in active : r.added_date >= q.added_date ]_vars

\* C29: the ticker stored in every watchlist entry is the trimmed, upper-cased
\* symbol, and no two active entries denote the same symbol while differing in
\* letter case or surrounding whitespace.
C29_StoredSymbolNormalized ==
    /\ \A r \in watchlist_tickers : r.ticker = Upper(Strip(r.ticker))
    /\ \A r, q \in watchlist_tickers :
          ( r.is_active /\ q.is_active /\ Upper(Strip(r.ticker)) = Upper(Strip(q.ticker)) )
              => r = q

\* the is_active value of every ticker
ActiveFlags(rows) == { <<r.ticker, r.is_active>> : r \in rows }

SoftDeleted(r, t) == [r EXCEPT !.is_active = FALSE, !.updated_at = t]

\* C30: removeTicker(S), no storage fault met, reports success exactly when a
\* row for S exists, active or soft-deleted; it then clears is_active and sets
\* updated_at to the time of the call on that row and changes nothing else; with
\* no row for S it changes nothing.  A second call right after the first
\* reports the same and leaves the same is_active values.
C30_RemoveTicker ==
    /\ [][ ( last'.op = "remove" /\ ~last'.fault )
           => ( /\ last'.success <=> RowsOf(watchlist_tickers, last'.ticker) # {}
                /\ watchlist_tickers' =
                      { IF r.ticker = last'.ticker THEN SoftDeleted(r, now) ELSE r :
                          r \in watchlist_tickers }
                /\ ~last'.success => watchlist_tickers' = watchlist_tickers ) ]_vars
    /\ [][ ( /\ last.op = "remove" /\ ~last.fault
             /\ last'.op = "remove" /\ ~last'.fault /\ last'.ticker = last.ticker )
           => ( /\ last'.success = last.success
                /\ ActiveFlags(watchlist_tickers') = ActiveFlags(watchlist_tickers) ) ]_vars

\* C30 witness: a row that was already soft-deleted was removed again, later,
\* with success: it is still inactive and its updated_at is the time of the call.
C30_Witness ==
    /\ last.op = "remove" /\ ~last.fault /\ last.success
    /\ \E r \in last.found : ~r.is_active /\ r.updated_at < now
    /\ \E r \in RowsOf(watchlist_tickers, last.ticker) : ~r.is_active /\ r.updated_at = now
    /\ Cardinality(watchlist_tickers) = 2

\* C10: the priority of every watchlist entry is within 1..5.
C10_PriorityWithinRange ==
    \A r \in watchlist_tickers : r.priority \in 1..5

-----------------------------------------------------------------------------
(* Properties of the indicator engine *)

\* C14: every stored indicator record (ticker, timestamp) has a stored bar with
\* the same ticker and the same timestamp.
C14_IndicatorsReferenceBars ==
    \A ind \in technical_indicators :
        \E bar \in stock_data : bar.ticker = ind.ticker /\ bar.datetime = ind.datetime

\* whether the computation of one requested indicator failed in a call
Failed(call, indicator) ==
    \/ call.ta.failing = indicator
    \/ "Close" \notin DOMAIN call.data[1]

\* C15: in computeIndicators a failure while computing one requested indicator
\* does not stop the others: every requested indicator has its columns in the
\* returned series, null for an indicator that failed and holding the computed
\* values for every other one, whether or not persisting the indicators failed.
C15_IndicatorFailureIsolated ==
    [][ last'.op = "calculate"
        => \A k \in 1..Len(last'.indicators) :
             \A column \in IndicatorColumns(last'.indicators[k]) :
               \A i \in 1..Len(last'.result) :
                 /\ column \in DOMAIN last'.result[i]
                 /\ last'.result[i][column] =
                       IF Failed(last', last'.indicators[k]) THEN NaN
                       ELSE Cell(last'.data, i, last'.ta) ]_vars

\* the column of the series that each indicator column of the store is taken from
SeriesColumn ==
    [sma_20 |-> "SMA_20", sma_50 |-> "SMA_50", sma_100 |-> "SMA_100",
     sma_200 |-> "SMA_200", ema_20 |-> "EMA_20", rsi_14 |-> "RSI_14",
     macd |-> "MACD", macd_signal |-> "MACD_Signal", bb_upper |-> "BB_Upper",
     bb_middle |-> "BB_Middle", bb_lower |-> "BB_Lower"]

\* the stored indicator records of a ticker at a timestamp
RecordsAt(rows, ticker, datetime) ==
    { r \in rows : r.ticker = ticker /\ r.datetime = datetime }

\* C16: for every row and every indicator column, the value persisted by
\* computeIndicators is null when the computed value is missing or the column
\* was not computed (never 0.0), and a computed value of exactly 0.0 is stored
\* as 0.0, not as null.
C16_MissingStoredAsNull ==
    [][ ( last'.op = "calculate" /\ last'.saved )
        => \A i \in 1..Len(last'.result) :
             \A r \in RecordsAt(technical_indicators', last'.ticker, last'.result[i].Datetime) :
               \A c \in DOMAIN SeriesColumn :
                 LET row == last'.result[i]
                     computed == SeriesColumn[c] \in DOMAIN row
                 IN  /\ (~computed \/ row[SeriesColumn[c]] = NaN) => r[c] = None
                     /\ (computed /\ row[SeriesColumn[c]] = 0) => r[c] = Some(0) ]_vars

\* C19: after computeIndicators has run for a ticker (and its write went
\* through), for every timestamp of the series the one stored indicator record
\* holds in each of the eleven columns exactly the value just computed, null
\* where none was computed, and queryIndicators returns those values.
C19_ElevenColumnsPersisted ==
    [][ ( last'.op = "calculate" /\ last'.saved )
        => LET queried == get_technical_indicators(technical_indicators', last'.ticker, None)
           IN  \A i \in 1..Len(last'.result) :
                 LET row == last'.result[i]
                 IN  /\ Cardinality(RecordsAt(technical_indicators', last'.ticker,
                                              row.Datetime)) = 1
                     /\ \A r \in RecordsAt(technical_indicators', last'.ticker, row.Datetime) :
                           \A c \in DOMAIN SeriesColumn :
                             r[c] = NotNaOrNone(row, SeriesColumn[c])
                     /\ \E k \in 1..Len(queried) :
                           /\ queried[k].datetime = row.Datetime
                           /\ \A c \in DOMAIN SeriesColumn :
                                 /\ c \in DOMAIN queried[k]
                                 /\ queried[k][c] = NotNaOrNone(row, SeriesColumn[c]) ]_vars

\* a call of signals on a series that has the MACD line and its signal line
MacdCall == last.op = "signals" /\ "macd" \in DOMAIN last.signals

\* the two most recent points of the series of the last call
Current == last.data[Len(last.data)]
Previous == last.data[Len(last.data) - 1]

\* comparisons of two values, false when one of them is missing
Above(a, b) == a # NaN /\ b # NaN /\ a > b
Below(a, b) == a # NaN /\ b # NaN /\ a < b
AboveOrEqual(a, b) == a # NaN /\ b # NaN /\ a >= b
BelowOrEqual(a, b) == a # NaN /\ b # NaN /\ a <= b

\* C20 as stated: the MACD signal is Buy exactly when previous MACD <= previous
\* signal and current MACD > current signal, Sell exactly when previous MACD >=
\* previous signal and current MACD < current signal, Hold otherwise; Buy and
\* Sell never hold together.
C20_MacdSignalOnStoredValues ==
    MacdCall =>
        LET buy == /\ BelowOrEqual(Previous.MACD, Previous.MACD_Signal)
                   /\ Above(Current.MACD, Current.MACD_Signal)
            sell == /\ AboveOrEqual(Previous.MACD, Previous.MACD_Signal)
                    /\ Below(Current.MACD, Current.MACD_Signal)
        IN  /\ ~(buy /\ sell)
            /\ last.signals["macd"] = "Buy Signal (MACD Cross Above)" <=> buy
            /\ last.signals["macd"] = "Sell Signal (MACD Cross Below)" <=> sell
            /\ last.signals["macd"] = "Hold" <=> ~buy /\ ~sell

\* a value of the series, a missing one read as 0
ReadAsZero(v) == IF v = NaN THEN 0 ELSE v

\* C20 amended: the same rule, applied to the four values with a missing MACD
\* or signal value read as 0.
C20_MacdSignalMissingAsZero ==
    MacdCall =>
        LET pm == ReadAsZero(Previous.MACD)
            ps == ReadAsZero(Previous.MACD_Signal)
            cm == ReadAsZero(Current.MACD)
            cs == ReadAsZero(Current.MACD_Signal)
            buy == pm <= ps /\ cm > cs
            sell == pm >= ps /\ cm < cs
        IN  /\ ~(buy /\ sell)
            /\ last.signals["macd"] = "Buy Signal (MACD Cross Above)" <=> buy
            /\ last.signals["macd"] = "Sell Signal (MACD Cross Below)" <=> sell
            /\ last.signals["macd"] = "Hold" <=> ~buy /\ ~sell

\* C20 witness: a Buy decided while the signal line is still missing on both
\* points: the MACD line goes from 0, a tie with the missing value, to above 0.
C20_Witness ==
    /\ MacdCall
    /\ last.signals["macd"] = "Buy Signal (MACD Cross Above)"
    /\ Previous.MACD = 0 /\ Previous.MACD_Signal = NaN
    /\ Current.MACD > 0 /\ Current.MACD_Signal = NaN

\* a call of signals on a series that has the RSI column
RsiCall == last.op = "signals" /\ "rsi" \in DOMAIN last.signals

\* an RSI value, a missing one read as the neutral 50
ReadAsNeutral(v) == IF v = NaN THEN 50 ELSE v

\* C21: the RSI signal, decided on the two most recent points, is Buy exactly
\* when previous RSI >= 30 and current RSI < 30, Sell exactly when previous
\* RSI <= 70 and current RSI > 70, and Hold otherwise; a missing RSI counts as
\* the neutral 50, so a missing current value gives Hold.
C21_RsiSignal ==
    RsiCall =>
        LET pr == ReadAsNeutral(Previous.RSI_14)
            cr == ReadAsNeutral(Current.RSI_14)
            buy == pr >= 30 /\ cr < 30
            sell == pr <= 70 /\ cr > 70
        IN  /\ ~(buy /\ sell)
            /\ last.signals["rsi"] = "Buy Signal (Oversold)" <=> buy
            /\ last.signals["rsi"] = "Sell Signal (Overbought)" <=> sell
            /\ last.signals["rsi"] = "Hold" <=> ~buy /\ ~sell
            /\ Current.RSI_14 = NaN => last.signals["rsi"] = "Hold"

\* C21 witness: the current RSI is missing after a previous RSI of 30; read as
\* 0 it would be a Buy, the answer is Hold.
C21_Witness ==
    /\ RsiCall
    /\ Previous.RSI_14 = 30 /\ Current.RSI_14 = NaN
    /\ last.signals["rsi"] = "Hold"

\* C22: for a series whose closes are all the same value C, the SMA_20 column
\* is null at every index below 19 and equals C at every index from 19 on
\* (indices counted from 0).
C22_SmaOfConstantSeries ==
    ( /\ last.op = "SMA_20"
      /\ \A i \in 1..Len(last.close) : last.close[i] = last.close[1] )
    => \A i \in 1..Len(last.close) :
         /\ i - 1 < 19 => last.SMA_20[i] = NaN
         /\ i - 1 >= 19 => last.SMA_20[i] = last.close[1]

\* C22 witness: a constant series of more than twenty bars, with a null at
\* index 18 and the close at indices 19 and 20.
C22_Witness ==
    /\ last.op = "SMA_20"
    /\ Len(last.close) > 20
    /\ \A i \in 1..Len(last.close) : last.close[i] = 7
    /\ last.SMA_20[19] = NaN /\ last.SMA_20[20] = 7 /\ last.SMA_20[21] = 7

\* the stored bars of exactly the key of a get_stock_data call
BarsOfKey(call) ==
    { r \in stock_data :
        r.ticker = call.ticker /\ r.period = call.period /\ r.interval = call.interval }

Min(a, b) == IF a <= b THEN a ELSE b

\* the frame holds `count` bars of the key, the latest ones, in ascending order
LatestAscending(call, count) ==
    LET df == call.returned.value
    IN  /\ Len(df) = count
        /\ \A i, j \in 1..Len(df) : i < j => df[i].datetime < df[j].datetime
        /\ \A i \in 1..Len(df) :
              \E r \in BarsOfKey(call) :
                  df[i] = [datetime |-> r.datetime, open |-> r.open, high |-> r.high,
                           low |-> r.low, close |-> r.close, volume |-> r.volume]
        /\ \A r \in BarsOfKey(call) :
              \/ \E i \in 1..Len(df) : df[i].datetime = r.datetime
              \/ \A i \in 1..Len(df) : r.datetime < df[i].datetime

\* C26: get_stock_data returns only bars of exactly the requested
\* (ticker, period, interval), by timestamp ascending; with a limit N the N bars
\* with the latest timestamps (all of them when fewer than N exist).
C26_QueryLatestN ==
    [][ ( last'.op = "get_stock_data" /\ ~last'.fault )
        => LatestAscending(last', IF last'.limit = None THEN Cardinality(BarsOfKey(last'))
                                  ELSE Min(last'.limit[1], Cardinality(BarsOfKey(last')))) ]_vars

\* the records of a table written at or after a cutoff
WrittenSince(rows, cutoff) == { r \in rows : r.created_at >= cutoff }

\* C27: clear_old_data deletes exactly the bars and indicator records written
\* before the cutoff (the time of the call minus days_to_keep) and leaves the
\* records written since and every watchlist entry unchanged; a key that was
\* fresh before is fresh after whenever the cutoff is older than the TTL.
C27_PurgeExactlyOlderThanCutoff ==
    [][ ( last'.op = "purge" /\ ~last'.fault )
        => LET cutoff == now - last'.days_to_keep * MinutesPerDay
           IN  /\ stock_data' = WrittenSince(stock_data, cutoff)
               /\ technical_indicators' = WrittenSince(technical_indicators, cutoff)
               /\ watchlist_tickers' = watchlist_tickers
               /\ last'.days_to_keep * MinutesPerDay > CACHE_DURATION_MINUTES
                     => \A key \in QueryKeys :
                          is_data_cached(stock_data, key[1], key[2], key[3], LocalNow)
                            => is_data_cached(stock_data', key[1], key[2], key[3], LocalNow) ]_vars

-----------------------------------------------------------------------------
(* Properties of the gateway *)

\* the decimal numeral of a positive number
RECURSIVE Numeral(_)
Numeral(n) ==
    IF n < 10 THEN <<DigitChars[n + 1]>> ELSE Numeral(n \div 10) \o <<DigitChars[(n % 10) + 1]>>

StartIs(call, days) == call.start_date = Some(call.end_date - days * MinutesPerDay)

\* C24: the start date of a download is the end date minus N days for a period
\* 'Nd', 30*N days for 'Nmo', 365*N days for 'Ny' and 3650 days for 'max'; every
\* period of DEFAULT_TIME_PERIODS has one of these forms and its start date is
\* strictly before the end date.
C24_StartDateFromPeriod ==
    [][ last'.op = "download"
        => /\ \A n \in 1..MaxPeriodCount :
                /\ last'.period = Numeral(n) \o <<"d">> => StartIs(last', n)
                /\ last'.period = Numeral(n) \o <<"m", "o">> => StartIs(last', 30 * n)
                /\ last'.period = Numeral(n) \o <<"y">> => StartIs(last', 365 * n)
           /\ last'.period = <<"m", "a", "x">> => StartIs(last', 3650)
           /\ last'.period \in DEFAULT_TIME_PERIODS
                => /\ \/ last'.period = <<"m", "a", "x">>
                      \/ \E n \in 1..MaxPeriodCount :
                            last'.period \in { Numeral(n) \o <<"d">>,
                                               Numeral(n) \o <<"m", "o">>,
                                               Numeral(n) \o <<"y">> }
                   /\ last'.start_date # None
                   /\ last'.start_date[1] < last'.end_date ]_vars

C24_Witness ==
    /\ last.op = "download"
    /\ last.period = <<"6", "m", "o">>
    /\ last.end_date = LocalNow
    /\ last.start_date = Some(LocalNow - 180 * MinutesPerDay)

SeriesFields == {"Datetime", "Open", "High", "Low", "Close", "Volume"}

\* a series returned by fetch_stock_data has the six field names of the gateway
SameFieldNames ==
    ( last.op = "fetch" /\ last.result # None )
        => \A i \in 1..Len(last.result[1]) : DOMAIN last.result[1][i] = SeriesFields

\* calculate_indicators on the series just returned, the library and the store
\* working, adds the columns of every requested indicator and persists a record
\* for every bar of the series
ComputesAndPersists ==
    ( /\ last.op = "fetch"
      /\ last'.op = "calculate" /\ last'.ta.failing = "none" /\ ~last'.fault )
        => ( /\ \A k \in 1..Len(last'.indicators) :
                  \A column \in IndicatorColumns(last'.indicators[k]) :
                      \A i \in 1..Len(last'.result) : column \in DOMAIN last'.result[i]
             /\ last'.saved
             /\ \A i \in 1..Len(last'.data) :
                  \E ind \in technical_indicators' :
                      ind.ticker = last'.ticker /\ ind.created_at = now )

\* C28: a series returned by getSeries has the same field names (Datetime,
\* Open, High, Low, Close, Volume) whether it was served from the store or
\* fetched from the gateway, so computeIndicators applied to a cache-hit series
\* adds the indicator columns and persists them as for a fetched series.
C28_CacheHitSeriesLikeFetched ==
    /\ []SameFieldNames
    /\ [][ComputesAndPersists]_vars

-----------------------------------------------------------------------------
(* Properties of the store *)

\* the failure values: False, an empty table, an empty list
FailureValues == { Bool(FALSE), DataFrame(<<>>), List(<<>>) }

\* C17: every store operation reports a storage fault as its failure value
\* (False, empty table, empty list); no exception reaches the caller and the
\* faulted call writes nothing.
C17_FaultReportedAsFailureValue ==
    [][ ( "fault" \in DOMAIN last' /\ "returned" \in DOMAIN last' /\ last'.fault )
        => ( /\ last'.returned \in FailureValues
             /\ stock_data' = stock_data
             /\ technical_indicators' = technical_indicators
             /\ watchlist_tickers' = watchlist_tickers ) ]_vars

\* C18: a batch upsert is all-or-nothing: when upsertBars or upsertIndicators
\* fails on a record of the batch, no record of the batch is persisted, the
\* rows stored before the call keep their values and write times, and the
\* operation returns failure.
C18_BatchAllOrNothing ==
    [][ ( last'.op \in {"save_stock_data", "save_technical_indicators"} /\ last'.fault )
        => ( /\ stock_data' = stock_data
             /\ technical_indicators' = technical_indicators
             /\ last'.returned = Bool(FALSE) ) ]_vars

\* C18 witness: a batch of bars failed on its second record, over a store that
\* holds, written earlier, the bar its first record would replace.
C18_Witness ==
    /\ last.op = "save_stock_data" /\ last.fault_at = 2
    /\ last.returned = Bool(FALSE)
    /\ \E r \in stock_data :
          /\ SameNaturalKey(r, last.batch[1])
          /\ Values(r) # last.batch[1]
          /\ r.created_at < now

====
